---- MODULE Spec2Model ----
(***************************************************************************)
(* The embroidery configurator of the tote-bag theme.                      *)
(*                                                                         *)
(* Two configurator instances can live on a page:                          *)
(*   - the PrePurchase instance (position "pdp"), src/assets/embroidery.js *)
(*     whose plan is sent by the product form, src/assets/product-form.js; *)
(*   - the PostPurchase instance (position "drawer"), the second class of  *)
(*     src/unnamed/part_005, which submits to the cart itself.             *)
(* Both write the page-global window.embroideryAddons and the same         *)
(* sessionStorage item.  The DOM fields (name input, checkbox, checked     *)
(* radio of every fieldset) are the system of record, as in the code.      *)
(* Both files register the element c-embroidery, each unless it is already *)
(* defined, and the class of part_005 has a pdp position too: the          *)
(* PrePurchase instance runs whichever script the product page loaded.     *)
(***************************************************************************)
EXTENDS Integers, Sequences, FiniteSets, TLC

VARIABLES
  pdp,      \* the PrePurchase instance: its DOM fields and add button
  drawer,   \* the PostPurchase instance: its DOM fields, add button, line data
  formQty,  \* value of the product form's quantity input (0: none / not a number)
  addons,   \* window.embroideryAddons: <<>> (absent) or <<plan>>
  storage,  \* sessionStorage item embroidery_<productId>: <<>> or <<snapshot>>
  form,     \* the product form: loading guard, request in flight, the responses
            \* received, the notifications published
  subs,     \* the PostPurchase submissions started so far (handleAddButtonClick calls)
  env,      \* the page around the instances: whether sessionStorage throws on
            \* every access (disabled, over quota), whether some component
            \* listens to embroidery:toggle
  toggled,  \* what that listener received from the handler that ran last
  accordion \* the c-accordion inside each instance: isOpen, and whether its
            \* throttled toggle was called less than 300 ms ago

vars == <<pdp, drawer, formQty, addons, storage, form, subs, env, toggled, accordion>>

(***************************************************************************)
(* Bounds of the model.                                                    *)
(***************************************************************************)
MaxQty == 2           \* largest quantity the shopper enters
MaxFormSubmits == 2   \* product form submits in one behaviour
MaxSubmits == 2       \* drawer add-button clicks in one behaviour

(***************************************************************************)
(* The static catalog: what the template renders into the data-attributes  *)
(* of the radio inputs (data-option-name, value, data-option-price,        *)
(* data-variant-id) and of the name input.                                 *)
(***************************************************************************)
Groups == <<"font", "color">>

GroupNames == {Groups[i] : i \in 1..Len(Groups)}

GroupValues(g) == IF g = "font" THEN <<"Classic", "Script">> ELSE <<"Black", "Gold">>

\* data-option-price of a radio input, as parseInt reads it
OptionPrice(v) ==
  CASE v = "Script" -> 200
    [] v = "Gold" -> 150
    [] OTHER -> 0

\* data-variant-id of a radio input ("" : the attribute is missing)
OptionVariantId(v) ==
  CASE v = "Classic" -> ""
    [] v = "Script" -> "var-script"
    [] v = "Black" -> "var-black"
    [] v = "Gold" -> "var-gold"
    [] OTHER -> ""

BasePrice == 500            \* data-additional-price of the price display
NameVariantId == "var-name" \* data-variant-id of the name input, when it has one
NameOptionPrice == 500      \* data-option-price of the name input

ProductId == "variant-1"    \* data-variant-id of the c-embroidery element
LineItemKey == "line-1"     \* data-line-item-key of the drawer element
MainId == "variant-1"       \* the product form's [name=id] value

NoneChecked == "<none>"     \* a fieldset with no checked radio

Texts == {"", " ", "Ava"}   \* what the shopper types into the name input

Absent == <<>>

RECURSIVE TrimLeft(_)
TrimLeft(s) == IF Len(s) > 0 /\ SubSeq(s, 1, 1) = " " THEN TrimLeft(Tail(s)) ELSE s

RECURSIVE TrimRight(_)
TrimRight(s) ==
  IF Len(s) > 0 /\ SubSeq(s, Len(s), Len(s)) = " "
    THEN TrimRight(SubSeq(s, 1, Len(s) - 1))
    ELSE s

\* String.prototype.trim
Trim(s) == TrimRight(TrimLeft(s))

(***************************************************************************)
(* Pure functions of a configurator's DOM fields c = [name, checked, sel]. *)
(***************************************************************************)

\* getSelectedOptions of embroidery.js: the entries of the fieldsets with a
\* checked radio, in fieldset order
RECURSIVE SelectedFrom(_, _)
SelectedFrom(c, i) ==
  IF i > Len(Groups) THEN <<>>
  ELSE (IF c.sel[Groups[i]] = NoneChecked THEN <<>> ELSE <<<<Groups[i], c.sel[Groups[i]]>>>>)
       \o SelectedFrom(c, i + 1)

getSelectedOptions(c) == SelectedFrom(c, 1)

\* getState: the snapshot that saveState serialises
getState(c, position) ==
  [name |-> c.name, enabled |-> c.checked, productId |-> ProductId,
   position |-> position, options |-> getSelectedOptions(c)]

\* isEmbroideryValid without the trim of the name
isEmbroideryValidUntrimmed(c) ==
  IF ~c.checked THEN TRUE
  ELSE IF ~(Len(c.name) > 0) THEN FALSE
  ELSE \A i \in 1..Len(Groups) : c.sel[Groups[i]] # NoneChecked

isEmbroideryValid(c) ==
  IF ~c.checked THEN TRUE
  ELSE IF ~(Len(Trim(c.name)) > 0) THEN FALSE
  ELSE \A i \in 1..Len(Groups) : c.sel[Groups[i]] # NoneChecked

RECURSIVE SumSelected(_, _)
SumSelected(c, i) ==
  IF i > Len(Groups) THEN 0
  ELSE (IF c.sel[Groups[i]] = NoneChecked THEN 0 ELSE OptionPrice(c.sel[Groups[i]]))
       + SumSelected(c, i + 1)

\* calculateTotalPrice without the loop over the fieldsets
BasePriceOnly(c) ==
  IF ~(Len(c.name) > 0) THEN 0 ELSE BasePrice

\* a total that starts from the amount on display instead of this.basePrice
AccumulatingPrice(c) ==
  IF ~(Len(c.name) > 0) THEN 0 ELSE c.price + SumSelected(c, 1)

calculateTotalPrice(c) ==
  IF ~(Len(c.name) > 0) THEN 0 ELSE BasePrice + SumSelected(c, 1)

\* updatePrice: the amount the price display shows
updatePrice(c) ==
  IF calculateTotalPrice(c) > 0 THEN calculateTotalPrice(c) ELSE BasePrice

\* the quantity read from the product form: parseInt(value, 10) || 1, or 1
\* when the page has no quantity input
FormQuantity == IF formQty = 0 THEN 1 ELSE formQty

\* one entry of a request's items array; link is <<>> or <<field, reference>>,
\* properties a sequence of <<key, value>> pairs
Item(id, quantity, link, properties) ==
  [id |-> id, quantity |-> quantity, link |-> link, properties |-> properties]

\* buildEmbroideryAddons without the item of the name input
NoBaseItems(c, quantity) == <<>>

\* the addon item of the name input (the base embroidery product)
BaseItems(c, quantity) ==
  IF c.nameVariantId # "" /\ NameOptionPrice > 0
    THEN <<Item(c.nameVariantId, quantity, <<"parent_id", ProductId>>, <<>>)>>
    ELSE <<>>

\* the loop over the fieldsets without the price > 0 test
RECURSIVE OptionItemsUnfiltered(_, _, _)
OptionItemsUnfiltered(c, quantity, i) ==
  IF i > Len(Groups) THEN <<>>
  ELSE LET v == c.sel[Groups[i]] IN
       (IF v = NoneChecked \/ OptionVariantId(v) = ""
          THEN <<>>
          ELSE <<Item(OptionVariantId(v), quantity, <<"parent_id", ProductId>>, <<>>)>>)
       \o OptionItemsUnfiltered(c, quantity, i + 1)

RECURSIVE OptionItems(_, _, _)
OptionItems(c, quantity, i) ==
  IF i > Len(Groups) THEN <<>>
  ELSE LET v == c.sel[Groups[i]] IN
       (IF v = NoneChecked \/ OptionVariantId(v) = "" \/ OptionPrice(v) <= 0
          THEN <<>>
          ELSE <<Item(OptionVariantId(v), quantity, <<"parent_id", ProductId>>, <<>>)>>)
       \o OptionItems(c, quantity, i + 1)

RECURSIVE SelectedText(_, _)
SelectedText(c, i) ==
  IF i > Len(Groups) THEN ""
  ELSE (IF c.sel[Groups[i]] = NoneChecked THEN "" ELSE ", " \o c.sel[Groups[i]])
       \o SelectedText(c, i + 1)

\* the summary without the quotes around the text
EmbroideryNameUnquoted(c) == c.name \o SelectedText(c, 1)

\* the "Embroidery Name" property
EmbroideryName(c) == "\"" \o c.name \o "\"" \o SelectedText(c, 1)

\* buildEmbroideryAddons (embroidery.js): the new value of window.embroideryAddons
buildEmbroideryAddons(c) ==
  IF ~c.checked \/ ~isEmbroideryValid(c) THEN Absent
  ELSE <<[mainProductId |-> ProductId,
          items |-> BaseItems(c, FormQuantity) \o OptionItems(c, FormQuantity, 1),
          properties |-> <<<<"Embroidery Name", EmbroideryName(c)>>>>]>>

\* a rebuild that keeps the items of the plan it finds and appends its own
buildItemsAddonsMerged(c) ==
  IF ~c.checked \/ ~isEmbroideryValid(c) THEN Absent
  ELSE <<[mainProductId |-> ProductId,
          items |-> (IF addons # Absent THEN addons[1].items ELSE <<>>)
                    \o BaseItems(c, FormQuantity) \o OptionItems(c, FormQuantity, 1),
          properties |-> <<<<"Embroidery Name", EmbroideryName(c)>>>>]>>

\* buildItemsAddons (part_005): the same function under the drawer class's name
buildItemsAddons(c) ==
  IF ~c.checked \/ ~isEmbroideryValid(c) THEN Absent
  ELSE <<[mainProductId |-> ProductId,
          items |-> BaseItems(c, FormQuantity) \o OptionItems(c, FormQuantity, 1),
          properties |-> <<<<"Embroidery Name", EmbroideryName(c)>>>>]>>

\* a handler that leaves the add button as it is
ButtonLeftAlone(c) == c

\* validateAndUpdateButton: the add button's disabled attribute
validateAndUpdateButton(c) == [c EXCEPT !.disabled = ~isEmbroideryValid(c)]

\* updatePreview, as far as the instance's own elements go: the price display
\* and the add button (the plan it stores is built by the caller's action)
updatePreview(c) == validateAndUpdateButton([c EXCEPT !.price = updatePrice(c)])

\* JSON.stringify of a snapshot: a text that JSON.parse reads back
Stringify(state) == [json |-> TRUE, state |-> state]

\* saveState: the sessionStorage item after JSON.stringify(getState())
saveState(c, position) == <<Stringify(getState(c, position))>>

\* sessionStorage.setItem inside the try of saveState: the item afterwards
setItem(item) == IF env.storageThrows THEN storage ELSE item

\* saveState without its try / catch: the exception of setItem leaves it
saveUncaught == env.storageThrows

\* whether an exception thrown by sessionStorage leaves saveState and ends
\* the calling handler: never, the catch logs a warning and returns
saveEscapes == FALSE

\* the event dispatched before validateAndUpdateButton has run: the listener
\* finds the button as the handler found it
ToggleEventBeforeValidation(c, enabled, position) ==
  IF env.listening
    THEN <<[enabled |-> enabled, position |-> position,
            buttonDisabled |-> IF position = "pdp" THEN pdp.disabled ELSE drawer.disabled]>>
    ELSE <<>>

\* dispatchEvent(new CustomEvent('embroidery:toggle', ...)): what the page's
\* listener, if there is one, receives: the detail of the event, and the add
\* button as it is when the event is dispatched
ToggleEvent(c, enabled, position) ==
  IF env.listening
    THEN <<[enabled |-> enabled, position |-> position, buttonDisabled |-> c.disabled]>>
    ELSE <<>>

\* getSelectedOptions of part_005: empty while the checkbox is unchecked
D_getSelectedOptions(c) == IF ~c.checked THEN <<>> ELSE SelectedFrom(c, 1)

D_getState(c, position) ==
  [name |-> c.name, enabled |-> c.checked, productId |-> ProductId,
   position |-> position, options |-> D_getSelectedOptions(c)]

\* saveState of part_005, called by every handler whatever the position
D_saveState(c) == <<Stringify(D_getState(c, "drawer"))>>

(***************************************************************************)
(* The PrePurchase instance.  Under src/assets/embroidery.js, cacheElements*)
(* calls isPDP() and isDrawer() as free functions; they are taken to be    *)
(* the theme's globals and to answer as the methods of the class do.       *)
(* Under the class of part_005 the handlers save without asking for the    *)
(* position, getSelectedOptions is empty while the checkbox is unchecked,  *)
(* collapsing the accordion deletes the plan, and no listener is bound to  *)
(* the checkbox.                                                           *)
(***************************************************************************)
Scripts == {"embroidery.js", "part_005"}

\* the saveState call of a handler of the instance in position pdp
PdpSave(c) ==
  IF c.script = "part_005" THEN <<Stringify(D_getState(c, "pdp"))>> ELSE saveState(c, "pdp")

\* onDOMReady in position pdp: initializeState runs updatePreview and
\* validateAndUpdateButton; no saved state is loaded
PdpMount ==
  /\ ~pdp.mounted
  /\ pdp' = [updatePreview(pdp) EXCEPT !.mounted = TRUE]
  /\ addons' = buildEmbroideryAddons(pdp)
  /\ UNCHANGED <<drawer, formQty, storage, form, subs, env, accordion>>
  /\ toggled' = <<>>

\* handleNameInput: the shopper changed the name input to v
PdpNameInput(v) ==
  /\ pdp.mounted
  /\ v # pdp.name
  /\ LET c == [pdp EXCEPT !.name = v] IN
     /\ pdp' = updatePreview(c)
     /\ addons' = buildEmbroideryAddons(c)
     /\ storage' = setItem(PdpSave(c))
  /\ UNCHANGED <<drawer, formQty, form, subs, env, accordion>>
  /\ toggled' = <<>>

\* handleAccordionToggle: accordion:toggle with detail.isOpen
PdpOnAccordionToggle(isOpen) ==
  LET c == [pdp EXCEPT !.checked = isOpen] IN
    /\ addons' = IF c.script = "part_005" /\ ~isOpen THEN Absent ELSE addons
    /\ storage' = setItem(PdpSave(c))
    /\ pdp' = IF saveEscapes THEN c ELSE validateAndUpdateButton(c)
    /\ toggled' = IF saveEscapes THEN <<>> ELSE ToggleEvent(pdp', isOpen, "pdp")

\* an accordion:toggle event reaches the instance (accordion.open(), close()
\* or toggle() called by the page, or a gesture of the shopper)
PdpAccordionToggle(isOpen) ==
  /\ pdp.mounted
  /\ PdpOnAccordionToggle(isOpen)
  /\ UNCHANGED <<drawer, formQty, form, subs, env, accordion>>

\* handleCheckboxChange: the shopper clicked the checkbox itself (only
\* embroidery.js binds a listener to the checkbox)
PdpCheckboxChange ==
  /\ pdp.mounted
  /\ pdp.script = "embroidery.js"
  /\ LET c == [pdp EXCEPT !.checked = ~pdp.checked] IN
     /\ storage' = setItem(PdpSave(c))
     /\ pdp' = IF saveEscapes THEN c ELSE validateAndUpdateButton(c)
     /\ toggled' = IF saveEscapes THEN <<>> ELSE ToggleEvent(pdp', c.checked, "pdp")
  /\ UNCHANGED <<drawer, formQty, addons, form, subs, env, accordion>>

\* handleOptionChange: the shopper checked radio v of fieldset g
PdpOptionChange(g, v) ==
  /\ pdp.mounted
  /\ v # pdp.sel[g]
  /\ LET c == [pdp EXCEPT !.sel[g] = v] IN
     /\ pdp' = updatePreview(c)
     /\ addons' = buildEmbroideryAddons(c)
     /\ storage' = setItem(PdpSave(c))
  /\ UNCHANGED <<drawer, formQty, form, subs, env, accordion>>
  /\ toggled' = <<>>

\* the shopper edits the product form's quantity input; no configurator
\* handler listens to it
SetFormQuantity(q) ==
  /\ formQty # 0
  /\ q # formQty
  /\ formQty' = q
  /\ UNCHANGED <<pdp, drawer, addons, storage, form, subs, env, accordion>>
  /\ toggled' = <<>>

(***************************************************************************)
(* The product form, src/assets/product-form.js.                           *)
(***************************************************************************)

\* the main product item of buildItems
MainItem ==
  Item(MainId, FormQuantity, <<>>,
       IF addons # Absent THEN addons[1].properties ELSE <<>>)

\* an addon item as buildItems copies it: id and quantity, and a properties
\* object whose only key, Addons, is undefined and so is not serialised
FormAddonItem(a) == Item(a.id, a.quantity, <<>>, <<>>)

\* buildItems without the loop over the plan's items
MainItemOnly == <<MainItem>>

buildItems ==
  <<MainItem>> \o
  (IF addons # Absent
     THEN [i \in 1..Len(addons[1].items) |-> FormAddonItem(addons[1].items[i])]
     ELSE <<>>)

\* onSubmitHandler up to the fetch: the submit button carries both the
\* configurator's disabled attribute and the form's aria-disabled guard
FormSubmit ==
  /\ ~pdp.disabled
  /\ ~form.ariaDisabled
  /\ form.submits < MaxFormSubmits
  /\ form' = [form EXCEPT !.ariaDisabled = TRUE, !.inflight = TRUE,
                          !.submits = @ + 1, !.req = buildItems, !.sent = @ + 1]
  /\ UNCHANGED <<pdp, drawer, formQty, addons, storage, subs, env, accordion>>
  /\ toggled' = <<>>

\* the then-callback without its clean-up of window.embroideryAddons
PlanKept(r) == addons

\* window.embroideryAddons after the then-callback ran on response r: the
\* error branch returns (throws) before the clean-up, a rejected fetch skips
\* the callback, an accepted request reaches the delete.  The page has a
\* cart drawer or cart notification (this.cart), so it does not navigate away.
PlanAfterResponse(r) == IF r = "ok" THEN Absent ELSE addons

\* the then / catch / finally of onSubmitHandler.  Both branches of the
\* then-callback build their publish() argument with formData.get('id'),
\* and formData is a local of buildItems: the ReferenceError ends the
\* callback there, before publish is called (and before handleErrorMessage
\* and this.error = true on the error branch), and is logged by the catch,
\* which publishes nothing.  So form.errors and form.updated, the cart-error
\* and cart-update notifications published by the form, keep their values.
FormResponse(r) ==
  /\ form.inflight
  /\ addons' = PlanAfterResponse(r)
  /\ form' = [form EXCEPT !.inflight = FALSE,
                          !.resps = Append(@, r),
                          !.ariaDisabled = IF form.error THEN @ ELSE FALSE]
  /\ UNCHANGED <<pdp, drawer, formQty, storage, subs, env, accordion>>
  /\ toggled' = <<>>

(***************************************************************************)
(* The PostPurchase instance, the second class of src/unnamed/part_005.    *)
(***************************************************************************)

\* applyState checking whatever radio the snapshot names
RECURSIVE ApplyOptionsUnchecked(_, _, _)
ApplyOptionsUnchecked(sel, options, i) ==
  IF i > Len(options) THEN sel
  ELSE ApplyOptionsUnchecked([g \in DOMAIN sel \cup {options[i][1]} |->
                                IF g = options[i][1] THEN options[i][2] ELSE sel[g]],
                             options, i + 1)

\* the radios applyState checks: an entry whose input does not exist is skipped
RECURSIVE ApplyOptions(_, _, _)
ApplyOptions(sel, options, i) ==
  IF i > Len(options) THEN sel
  ELSE LET g == options[i][1]
           v == options[i][2]
           found == g \in GroupNames /\ \E k \in 1..Len(GroupValues(g)) : GroupValues(g)[k] = v
       IN ApplyOptions(IF found THEN [sel EXCEPT ![g] = v] ELSE sel, options, i + 1)

\* applyState without its closing updatePreview
applyStateWithoutPreview(c, state) ==
  [c EXCEPT !.name = IF state.name # "" THEN state.name ELSE @,
            !.checked = state.enabled,
            !.sel = ApplyOptions(@, state.options, 1)]

\* applyState: write a snapshot back into the fields, then updatePreview
applyState(c, state) ==
  updatePreview([c EXCEPT !.name = IF state.name # "" THEN state.name ELSE @,
                          !.checked = state.enabled,
                          !.sel = ApplyOptions(@, state.options, 1)])

\* onDOMReady in position drawer: initializeState, then loadSavedState.
\* getItem throws when sessionStorage does, JSON.parse when the item is not
\* JSON text; both end in the catch of loadSavedState, before applyState.
DrawerMount ==
  /\ ~drawer.mounted
  /\ LET c0 == updatePreview(drawer)
         c1 == IF ~env.storageThrows /\ storage # Absent /\ storage[1].json
                 THEN applyState(c0, storage[1].state) ELSE c0
     IN /\ drawer' = [c1 EXCEPT !.mounted = TRUE]
        /\ addons' = buildItemsAddons(c1)
  /\ UNCHANGED <<pdp, formQty, storage, form, subs, env, accordion>>
  /\ toggled' = <<>>

\* handleNameInput
DrawerNameInput(v) ==
  /\ drawer.mounted
  /\ v # drawer.name
  /\ LET c == [drawer EXCEPT !.name = v] IN
     /\ drawer' = updatePreview(c)
     /\ addons' = buildItemsAddons(c)
     /\ storage' = setItem(D_saveState(c))
  /\ UNCHANGED <<pdp, formQty, form, subs, env, accordion>>
  /\ toggled' = <<>>

\* handleAccordionToggle: collapsing deletes window.embroideryAddons
DrawerOnAccordionToggle(isOpen) ==
  LET c == [drawer EXCEPT !.checked = isOpen] IN
    /\ addons' = IF ~isOpen THEN Absent ELSE addons
    /\ storage' = setItem(D_saveState(c))
    /\ drawer' = IF saveEscapes THEN c ELSE validateAndUpdateButton(c)
    /\ toggled' = IF saveEscapes THEN <<>> ELSE ToggleEvent(drawer', isOpen, "drawer")

\* an accordion:toggle event reaches the drawer's instance
DrawerAccordionToggle(isOpen) ==
  /\ drawer.mounted
  /\ DrawerOnAccordionToggle(isOpen)
  /\ UNCHANGED <<pdp, formQty, form, subs, env, accordion>>

\* handleOptionChange
DrawerOptionChange(g, v) ==
  /\ drawer.mounted
  /\ v # drawer.sel[g]
  /\ LET c == [drawer EXCEPT !.sel[g] = v] IN
     /\ drawer' = updatePreview(c)
     /\ addons' = buildItemsAddons(c)
     /\ storage' = setItem(D_saveState(c))
  /\ UNCHANGED <<pdp, formQty, form, subs, env, accordion>>
  /\ toggled' = <<>>

\* setLoadingState: the add button's aria-disabled attribute and loading class
setLoadingState(c, loading) == [c EXCEPT !.loading = loading]

\* an early return that throws instead, so that the catch publishes cart-error
SkippedWithError ==
  [phase |-> "done", result |-> "failed", change |-> "none", add |-> "none",
   items |-> <<>>, properties |-> <<>>, updated |-> 0, payload |-> "none", errors |-> 1,
   changeSent |-> 0, addSent |-> 0]

\* a click that returns before any request: personalization not enabled, no
\* line item key, or no plan after the rebuild
SkippedSub ==
  [phase |-> "done", result |-> "skipped", change |-> "none", add |-> "none",
   items |-> <<>>, properties |-> <<>>, updated |-> 0, payload |-> "none", errors |-> 0,
   changeSent |-> 0, addSent |-> 0]

\* the items of the add request: the plan's items with the line's quantity and
\* parent_line_key in place of parent_id
addItems(plan, c) ==
  [i \in 1..Len(plan.items) |->
     Item(plan.items[i].id, c.lineItemQuantity, <<"parent_line_key", c.lineItemKey>>, <<>>)]

\* addEmbroideryToCart issuing the add request also for an empty items list
StartedSubAlwaysAdding(plan, c) ==
  [phase |-> "await", result |-> "none", change |-> "pending", add |-> "pending",
   items |-> addItems(plan, c), properties |-> plan.properties,
   updated |-> 0, payload |-> "none", errors |-> 0,
   changeSent |-> 1, addSent |-> 1]

\* addEmbroideryToCart up to the await: both requests are issued, the add
\* request only when there are items
StartedSub(plan, c) ==
  [phase |-> "await", result |-> "none", change |-> "pending",
   add |-> IF Len(addItems(plan, c)) > 0 THEN "pending" ELSE "none",
   items |-> addItems(plan, c), properties |-> plan.properties,
   updated |-> 0, payload |-> "none", errors |-> 0,
   changeSent |-> 1, addSent |-> IF Len(addItems(plan, c)) > 0 THEN 1 ELSE 0]

\* handleAddButtonClick: a click event reaches the handler unless the button
\* has the disabled attribute; aria-disabled does not stop it
DrawerClick ==
  /\ drawer.mounted
  /\ ~drawer.disabled
  /\ Len(subs) < MaxSubmits
  /\ IF ~drawer.checked \/ drawer.lineItemKey = ""
       THEN /\ subs' = Append(subs, SkippedSub)
            /\ drawer' = setLoadingState(drawer, FALSE)
            /\ addons' = addons
       ELSE /\ addons' = buildItemsAddons(drawer)
            /\ IF addons' = Absent
                 THEN /\ subs' = Append(subs, SkippedSub)
                      /\ drawer' = setLoadingState(drawer, FALSE)
                 ELSE /\ subs' = Append(subs, StartedSub(addons'[1], drawer))
                      /\ drawer' = setLoadingState(drawer, TRUE)
  /\ UNCHANGED <<pdp, formQty, storage, form, env, accordion>>
  /\ toggled' = <<>>

\* a catch that issues the change request again instead of ending the handler
FailRetrying(s) ==
  [s EXCEPT !.change = "pending", !.changeSent = @ + 1, !.errors = @ + 1]

\* the catch of handleAddButtonClick: cart-error is published, the handler ends
Fail(s) == [s EXCEPT !.phase = "done", !.result = "failed", !.errors = @ + 1]

\* Join without the check of the change response
JoinIgnoringChangeErrors(s, r) ==
  IF s.phase # "await" THEN s
  ELSE IF r = "rejected" THEN Fail(s)
  ELSE IF s.change = "pending" \/ s.add = "pending" THEN s
  ELSE IF s.add = "errbody" THEN Fail(s)
  ELSE [s EXCEPT !.phase = "publishing", !.updated = @ + 1,
                 !.payload = IF s.add # "none" THEN "add" ELSE "change"]

\* Join without the check of the add response
JoinIgnoringAddErrors(s, r) ==
  IF s.phase # "await" THEN s
  ELSE IF r = "rejected" THEN Fail(s)
  ELSE IF s.change = "pending" \/ s.add = "pending" THEN s
  ELSE IF s.change = "errbody" THEN Fail(s)
  ELSE [s EXCEPT !.phase = "publishing", !.updated = @ + 1,
                 !.payload = IF s.add # "none" THEN "add" ELSE "change"]

\* the await of Promise.all and the code after it, run when response r of one
\* of the two requests has just arrived: Promise.all rejects with the first
\* rejection and resolves once every promise has; then the error checks and
\* the publish of cart-update
Join(s, r) ==
  IF s.phase # "await" THEN s
  ELSE IF r = "rejected" THEN Fail(s)
  ELSE IF s.change = "pending" \/ s.add = "pending" THEN s
  ELSE IF s.change = "errbody" \/ s.add = "errbody" THEN Fail(s)
  ELSE [s EXCEPT !.phase = "publishing", !.updated = @ + 1,
                 !.payload = IF s.add # "none" THEN "add" ELSE "change"]

\* the finally of handleAddButtonClick, run when the handler has just ended
Finally(before, after) ==
  IF before.phase # "done" /\ after.phase = "done"
    THEN setLoadingState(drawer, FALSE)
    ELSE drawer

\* the cart/change.js request of submission i ends with r
ChangeResponds(i, r) ==
  /\ subs[i].change = "pending"
  /\ LET s == Join([subs[i] EXCEPT !.change = IF subs[i].phase = "await" THEN r ELSE "late"], r) IN
     /\ subs' = [subs EXCEPT ![i] = s]
     /\ drawer' = Finally(subs[i], s)
  /\ UNCHANGED <<pdp, formQty, addons, storage, form, env, accordion>>
  /\ toggled' = <<>>

\* the cart/add.js request of submission i ends with r
AddResponds(i, r) ==
  /\ subs[i].add = "pending"
  /\ LET s == Join([subs[i] EXCEPT !.add = IF subs[i].phase = "await" THEN r ELSE "late"], r) IN
     /\ subs' = [subs EXCEPT ![i] = s]
     /\ drawer' = Finally(subs[i], s)
  /\ UNCHANGED <<pdp, formQty, addons, storage, form, env, accordion>>
  /\ toggled' = <<>>

\* the promise of publish(cartUpdate) settles: resolved, the plan is deleted;
\* rejected by a subscriber, the catch runs.  A promise that never settles is
\* a behaviour in which this action is never taken.
PublishSettles(i, r) ==
  /\ subs[i].phase = "publishing"
  /\ LET s == IF r = "resolved"
                THEN [subs[i] EXCEPT !.phase = "done", !.result = "success"]
                ELSE Fail(subs[i]) IN
     /\ subs' = [subs EXCEPT ![i] = s]
     /\ drawer' = Finally(subs[i], s)
  /\ addons' = IF r = "resolved" THEN Absent ELSE addons
  /\ UNCHANGED <<pdp, formQty, storage, form, env, accordion>>
  /\ toggled' = <<>>

\* how a cart operation ends: a response without error indication, a response
\* whose body carries status / errors (the cart service sends these with a
\* non-2xx status; fetch resolves all the same), or a rejected promise
\* (network failure, or a non-2xx answer whose body is not JSON)
Responses == {"ok", "errbody", "rejected"}

(***************************************************************************)
(* Initial states: the page as the template rendered it, nothing mounted.  *)
(***************************************************************************)
\* the c-accordion elements after init(): data-open is not "true", so the
\* body is hidden, the trigger unchecked, and no toggle call has been made
AccordionInit ==
  [pos \in {"pdp", "drawer"} |-> [isOpen |-> FALSE, throttled |-> FALSE]]

\* a c-embroidery element before onDOMReady: empty name, unchecked checkbox,
\* and per fieldset either the first radio pre-checked or none
Template(defaults, nv) ==
  [mounted |-> FALSE, name |-> "", checked |-> FALSE,
   sel |-> [g \in GroupNames |-> IF defaults THEN GroupValues(g)[1] ELSE NoneChecked],
   disabled |-> FALSE, price |-> BasePrice, nameVariantId |-> nv,
   loading |-> FALSE, lineItemKey |-> "", lineItemQuantity |-> 1,
   script |-> "part_005"]

FormInit ==
  [ariaDisabled |-> FALSE, error |-> FALSE, inflight |-> FALSE, submits |-> 0, req |-> <<>>,
   resps |-> <<>>, errors |-> 0, updated |-> 0, sent |-> 0]

\* a product page: the PrePurchase instance and the product form
InitPDP ==
  /\ \E defaults \in BOOLEAN, nv \in {"", NameVariantId}, sc \in Scripts :
        pdp = [Template(defaults, nv) EXCEPT !.script = sc]
  /\ drawer = Template(FALSE, "")
  /\ formQty = 1
  /\ addons = Absent
  /\ storage = Absent
  /\ form = FormInit
  /\ subs = <<>>
  /\ env = [storageThrows |-> FALSE, listening |-> FALSE]
  /\ toggled = <<>>
  /\ accordion = AccordionInit

NextPDP ==
  \/ PdpMount
  \/ \E v \in Texts : PdpNameInput(v)
  \/ \E isOpen \in BOOLEAN : PdpAccordionToggle(isOpen)
  \/ PdpCheckboxChange
  \/ \E g \in GroupNames : \E i \in 1..Len(GroupValues(g)) : PdpOptionChange(g, GroupValues(g)[i])
  \/ \E q \in 1..MaxQty : SetFormQuantity(q)
  \/ FormSubmit
  \/ \E r \in Responses : FormResponse(r)

SpecPDP == InitPDP /\ [][NextPDP]_vars

\* what an earlier product page can have left in sessionStorage
SavedSnapshots ==
  {Absent,
   <<Stringify([name |-> "Ava", enabled |-> TRUE, productId |-> ProductId, position |-> "pdp",
                options |-> <<<<"font", "Script">>, <<"color", "Gold">>>>])>>,
   <<Stringify([name |-> "Ava", enabled |-> TRUE, productId |-> ProductId, position |-> "pdp",
                options |-> <<<<"size", "Large">>, <<"color", "Pink">>>>])>>}

\* data-line-item-key and data-line-item-quantity of the drawer element: the
\* constructor's defaults when it was rendered without them, or the key and
\* quantity of its cart line
LineData == {[key |-> "", quantity |-> 1], [key |-> LineItemKey, quantity |-> MaxQty]}

\* a page with the cart drawer only: no product form, the item is a cart line
InitDrawer ==
  /\ pdp = Template(FALSE, "")
  /\ \E defaults \in BOOLEAN, nv \in {"", NameVariantId}, line \in LineData :
        drawer = [Template(defaults, nv) EXCEPT !.lineItemKey = line.key,
                                                !.lineItemQuantity = line.quantity]
  /\ formQty = 0
  /\ addons = Absent
  /\ storage \in SavedSnapshots
  /\ form = FormInit
  /\ subs = <<>>
  /\ env = [storageThrows |-> FALSE, listening |-> FALSE]
  /\ toggled = <<>>
  /\ accordion = AccordionInit

NextDrawer ==
  \/ DrawerMount
  \/ \E v \in Texts : DrawerNameInput(v)
  \/ \E isOpen \in BOOLEAN : DrawerAccordionToggle(isOpen)
  \/ \E g \in GroupNames : \E i \in 1..Len(GroupValues(g)) : DrawerOptionChange(g, GroupValues(g)[i])
  \/ DrawerClick
  \/ \E i \in 1..Len(subs) : \E r \in Responses : ChangeResponds(i, r)
  \/ \E i \in 1..Len(subs) : \E r \in Responses : AddResponds(i, r)
  \/ \E i \in 1..Len(subs) : \E r \in {"resolved", "rejected"} : PublishSettles(i, r)

SpecDrawer == InitDrawer /\ [][NextDrawer]_vars

(***************************************************************************)
(* A product page whose cart drawer holds the item as well: both instances.*)
(***************************************************************************)
\* an item under the key that is not JSON text: a snapshot's text cut short
Damaged ==
  <<[json |-> FALSE,
     state |-> [name |-> "Ava", enabled |-> TRUE, productId |-> ProductId, position |-> "pdp",
                options |-> <<>>]]>>

Init ==
  /\ \E defaults \in BOOLEAN, nv \in {"", NameVariantId}, sc \in Scripts :
        /\ pdp = [Template(defaults, nv) EXCEPT !.script = sc]
        /\ drawer = [Template(defaults, nv) EXCEPT !.lineItemKey = LineItemKey,
                                                   !.lineItemQuantity = MaxQty]
  /\ formQty = 1
  /\ addons = Absent
  /\ storage \in {Absent, Damaged}
  /\ form = FormInit
  /\ subs = <<>>
  /\ \E throws \in BOOLEAN : env = [storageThrows |-> throws, listening |-> TRUE]
  /\ toggled = <<>>
  /\ accordion = AccordionInit

Next == NextPDP \/ NextDrawer

Spec == Init /\ [][Next]_vars

(***************************************************************************)
(* The hand-over: the shopper configures on the product page, then the     *)
(* cart drawer mounts its instance and goes on from the saved snapshot.    *)
(***************************************************************************)
NextHandoff ==
  \/ PdpMount
  \/ \E v \in Texts : PdpNameInput(v)
  \/ \E isOpen \in BOOLEAN : PdpAccordionToggle(isOpen)
  \/ PdpCheckboxChange
  \/ \E g \in GroupNames : \E i \in 1..Len(GroupValues(g)) : PdpOptionChange(g, GroupValues(g)[i])
  \/ DrawerMount
  \/ \E v \in Texts : DrawerNameInput(v)
  \/ \E isOpen \in BOOLEAN : DrawerAccordionToggle(isOpen)
  \/ \E g \in GroupNames : \E i \in 1..Len(GroupValues(g)) : DrawerOptionChange(g, GroupValues(g)[i])

SpecHandoff == Init /\ [][NextHandoff]_vars

(***************************************************************************)
(* The shopper's gestures on the disclosure.  Each instance holds a        *)
(* c-accordion whose trigger is the instance's enable checkbox.            *)
(***************************************************************************)
\* throttle(fn, 300): the call is dropped when the last call that went
\* through is less than 300 ms old
Dropped(a) == a.throttled

\* onToggle(shouldOpen), reached through throttledToggle
onToggle(a, shouldOpen) == [isOpen |-> shouldOpen, throttled |-> TRUE]

\* 300 ms have passed since the last toggle of accordion pos went through
ThrottleElapses(pos) ==
  /\ accordion[pos].throttled
  /\ accordion' = [accordion EXCEPT ![pos].throttled = FALSE]
  /\ UNCHANGED <<pdp, drawer, formQty, addons, storage, form, subs, env>>
  /\ toggled' = <<>>

\* a click on the toggle area, not on the checkbox: the click handler flips
\* trigger.checked and calls throttledToggle; onToggle dispatches
\* accordion:toggle, which runs handleAccordionToggle
PdpToggleAreaClick ==
  /\ pdp.mounted
  /\ IF Dropped(accordion.pdp)
       THEN /\ pdp' = [pdp EXCEPT !.checked = ~pdp.checked]
            /\ toggled' = <<>>
            /\ UNCHANGED <<addons, storage, accordion>>
       ELSE /\ accordion' = [accordion EXCEPT !.pdp = onToggle(@, ~pdp.checked)]
            /\ PdpOnAccordionToggle(~pdp.checked)
  /\ UNCHANGED <<drawer, formQty, form, subs, env>>

\* a click on the checkbox itself: the browser flips it and fires change.
\* The accordion's listener calls throttledToggle(checked), whose onToggle
\* runs handleAccordionToggle; the listener embroidery.js binds to the same
\* checkbox then runs handleCheckboxChange (part_005 binds none).
PdpCheckboxClick ==
  /\ pdp.mounted
  /\ LET c == [pdp EXCEPT !.checked = ~pdp.checked]
         change == pdp.script = "embroidery.js" IN
     IF Dropped(accordion.pdp)
       THEN /\ pdp' = IF change THEN validateAndUpdateButton(c) ELSE c
            /\ storage' = IF change THEN setItem(PdpSave(c)) ELSE storage
            /\ toggled' = IF change THEN ToggleEvent(pdp', c.checked, "pdp") ELSE <<>>
            /\ UNCHANGED <<addons, accordion>>
       ELSE /\ accordion' = [accordion EXCEPT !.pdp = onToggle(@, c.checked)]
            /\ addons' = IF c.script = "part_005" /\ ~c.checked THEN Absent ELSE addons
            /\ storage' = setItem(PdpSave(c))
            /\ pdp' = validateAndUpdateButton(c)
            /\ toggled' = ToggleEvent(pdp', c.checked, "pdp")
                           \o (IF change THEN ToggleEvent(pdp', c.checked, "pdp") ELSE <<>>)
  /\ UNCHANGED <<drawer, formQty, form, subs, env>>

\* the same click in the drawer
DrawerToggleAreaClick ==
  /\ drawer.mounted
  /\ IF Dropped(accordion.drawer)
       THEN /\ drawer' = [drawer EXCEPT !.checked = ~drawer.checked]
            /\ toggled' = <<>>
            /\ UNCHANGED <<addons, storage, accordion>>
       ELSE /\ accordion' = [accordion EXCEPT !.drawer = onToggle(@, ~drawer.checked)]
            /\ DrawerOnAccordionToggle(~drawer.checked)
  /\ UNCHANGED <<pdp, formQty, form, subs, env>>

\* a click on the drawer's checkbox itself: only the accordion listens
DrawerCheckboxClick ==
  /\ drawer.mounted
  /\ IF Dropped(accordion.drawer)
       THEN /\ drawer' = [drawer EXCEPT !.checked = ~drawer.checked]
            /\ toggled' = <<>>
            /\ UNCHANGED <<addons, storage, accordion>>
       ELSE /\ accordion' = [accordion EXCEPT !.drawer = onToggle(@, ~drawer.checked)]
            /\ DrawerOnAccordionToggle(~drawer.checked)
  /\ UNCHANGED <<pdp, formQty, form, subs, env>>

\* a page with both instances, a listener of embroidery:toggle, and what an
\* earlier visit of the product page may have left in sessionStorage
InitAccordion ==
  /\ \E defaults \in BOOLEAN, sc \in Scripts :
        /\ pdp = [Template(defaults, NameVariantId) EXCEPT !.script = sc]
        /\ drawer = [Template(defaults, NameVariantId) EXCEPT !.lineItemKey = LineItemKey,
                                                              !.lineItemQuantity = MaxQty]
  /\ formQty = 1
  /\ addons = Absent
  /\ storage \in SavedSnapshots
  /\ form = FormInit
  /\ subs = <<>>
  /\ env = [storageThrows |-> FALSE, listening |-> TRUE]
  /\ toggled = <<>>
  /\ accordion = AccordionInit

NextAccordion ==
  \/ PdpMount
  \/ DrawerMount
  \/ \E v \in Texts : PdpNameInput(v)
  \/ PdpToggleAreaClick
  \/ PdpCheckboxClick
  \/ DrawerToggleAreaClick
  \/ DrawerCheckboxClick
  \/ \E pos \in {"pdp", "drawer"} : ThrottleElapses(pos)

SpecAccordion == InitAccordion /\ [][NextAccordion]_vars

(***************************************************************************)
(* The drawer's submissions with a cart service that answers every request: *)
(* fetch settles each of the two requests, so the response actions are      *)
(* weakly fair.  The promise of publish(cartUpdate) is the subscribers'     *)
(* and nothing in this code settles it: no fairness for PublishSettles.     *)
(***************************************************************************)
NextSubmit ==
  \/ DrawerMount
  \/ \E isOpen \in BOOLEAN : DrawerAccordionToggle(isOpen)
  \/ DrawerClick
  \/ \E i \in 1..Len(subs) : \E r \in Responses : ChangeResponds(i, r)
  \/ \E i \in 1..Len(subs) : \E r \in Responses : AddResponds(i, r)
  \/ \E i \in 1..Len(subs) : \E r \in {"resolved", "rejected"} : PublishSettles(i, r)

SpecSubmitFair ==
  /\ InitDrawer
  /\ [][NextSubmit]_vars
  /\ WF_vars(\E i \in 1..Len(subs) : \E r \in Responses : ChangeResponds(i, r))
  /\ WF_vars(\E i \in 1..Len(subs) : \E r \in Responses : AddResponds(i, r))

(***************************************************************************)
(* Properties.                                                             *)
(***************************************************************************)

\* a step that changed one of the PrePurchase instance's fields
PdpMutated ==
  pdp'.name # pdp.name \/ pdp'.checked # pdp.checked \/ pdp'.sel # pdp.sel

\* C1: after every mutation event has been handled, the stored plan and the
\* shown price are what the recompute pipeline yields from the current text,
\* checkbox and selections (so toggling on with everything filled in leaves a
\* plan, not an absent one).
C1_NeverStale ==
  [][PdpMutated =>
       /\ addons' = buildEmbroideryAddons(pdp)'
       /\ pdp'.price = updatePrice(pdp)']_vars

\* C2: whenever personalization is not enabled or the configuration is not
\* valid, window.embroideryAddons is absent.
C2_EmptyWhenOffOrInvalid ==
  pdp.mounted /\ (~pdp.checked \/ ~isEmbroideryValid(pdp)) => addons = Absent

\* C3: a PostPurchase submission is not treated as complete (cart-error or
\* cart-update handled, loading guard released) while one of its two requests
\* is still outstanding.
C3_JoinedBeforeComplete ==
  \A i \in 1..Len(subs) :
    subs[i].phase = "done" => subs[i].change # "pending" /\ subs[i].add # "pending"

\* a submission with a request outstanding or a handler still running
InFlight(s) == s.phase # "done" \/ s.change = "pending" \/ s.add = "pending"

\* C4: at most one submission of the PostPurchase instance is in flight.
C4_OneInFlight ==
  Cardinality({i \in 1..Len(subs) : InFlight(subs[i])}) <= 1

\* C5: a click that follows a successful submission, with the plan still
\* deleted and the configuration the one that submission applied, issues no
\* further add request for the same addon lines.
C5_NoDoubleApply ==
  [][Len(subs') = Len(subs) + 1 /\ addons = Absent =>
       \A i \in 1..Len(subs) :
         /\ subs[i].result = "success"
         /\ subs'[Len(subs')].items = subs[i].items
         /\ subs'[Len(subs')].properties = subs[i].properties
         => subs'[Len(subs')].add = "none"]_vars

\* one of the two responses carries an error indication, the other does not
MixedError(s) ==
  \/ s.change = "errbody" /\ s.add = "ok"
  \/ s.change = "ok" /\ s.add = "errbody"

\* C6: a submission in which one response signals an error and the other
\* does not ends as failed: no cart-update is published, one cart-error is,
\* and the step that ends it leaves the plan as it is and resets the loading
\* state.
C6_MixedErrorFails ==
  /\ [](\A i \in 1..Len(subs) :
          MixedError(subs[i]) =>
            /\ subs[i].phase = "done"
            /\ subs[i].result = "failed"
            /\ subs[i].updated = 0
            /\ subs[i].errors = 1)
  /\ [][\A i \in 1..Len(subs) :
          ~MixedError(subs[i]) /\ MixedError(subs'[i]) =>
            addons' = addons /\ ~drawer'.loading]_vars

C6_Witness ==
  \E i \in 1..Len(subs) :
    /\ subs[i].change = "errbody" /\ subs[i].add = "ok"
    /\ subs[i].phase = "done"
    /\ addons # Absent
    /\ addons[1].properties = subs[i].properties

\* C7: a submission whose two requests succeeded publishes exactly one
\* cart-update, carrying the add response when an add was issued and the
\* change response otherwise, and then deletes the plan: once its handler
\* has ended, it has ended in success.
C7_SuccessPublishesAndDeletes ==
  \A i \in 1..Len(subs) :
    subs[i].change = "ok" /\ subs[i].add \in {"ok", "none"} =>
      /\ subs[i].updated = 1
      /\ subs[i].payload = IF subs[i].add = "ok" THEN "add" ELSE "change"
      /\ subs[i].phase = "done" => subs[i].result = "success" /\ subs[i].errors = 0

\* C8: the quantity of every addon line of an outgoing request is the parent
\* item's quantity at submission: in the product form's request, the
\* quantity of the main item, read from the form at submit.
C8_AddonQuantityFresh ==
  \A k \in 2..Len(form.req) : form.req[k].quantity = form.req[1].quantity

\* C9: a product form submit issues one add request (none while one is in
\* flight) whose items are the main product, carrying the plan's properties,
\* followed by one line per item of the stored plan, in order, with that
\* item's id and quantity.  (The PrePurchase class has no handler that calls
\* the cart service: the form's request is the only one.)
C9_FormRequest ==
  /\ [](form.inflight => form.ariaDisabled)
  /\ [][form'.submits # form.submits =>
          /\ form'.submits = form.submits + 1
          /\ ~form.inflight /\ form'.inflight
          /\ form'.req[1].id = MainId
          /\ form'.req[1].quantity = FormQuantity
          /\ IF addons = Absent
               THEN Len(form'.req) = 1 /\ form'.req[1].properties = <<>>
               ELSE /\ form'.req[1].properties = addons[1].properties
                    /\ Len(form'.req) = 1 + Len(addons[1].items)
                    /\ \A k \in 1..Len(addons[1].items) :
                         /\ form'.req[k + 1].id = addons[1].items[k].id
                         /\ form'.req[k + 1].quantity = addons[1].items[k].quantity]_vars

C9_Witness ==
  /\ form.inflight
  /\ Len(form.req) = 4
  /\ addons # Absent
  /\ Len(addons[1].items) = 3

\* C10: every addon line of an outgoing add request carries a parent linkage:
\* the main product in the product form's request, the cart line in the
\* drawer's.
C10_ParentLinkage ==
  /\ \A k \in 2..Len(form.req) : form.req[k].link = <<"parent_id", MainId>>
  /\ \A i \in 1..Len(subs) : \A k \in 1..Len(subs[i].items) :
       subs[i].items[k].link = <<"parent_line_key", drawer.lineItemKey>>

\* C11: the step that handles the response of a product form request leaves
\* window.embroideryAddons absent when the cart service accepted the request,
\* and as it was when the service answered with an error or the request
\* failed.
C11_DiscardOnAccept ==
  [][Len(form'.resps) = Len(form.resps) + 1 =>
       IF form'.resps[Len(form'.resps)] = "ok"
         THEN addons' = Absent
         ELSE addons' = addons]_vars

\* a rejected request kept the plan, the next, accepted one discarded it
C11_Witness ==
  /\ form.resps = <<"errbody", "ok">>
  /\ Len(form.req) > 1
  /\ addons = Absent

\* a text made of blanks only (the empty text included)
Blank(t) == \A k \in 1..Len(t) : SubSeq(t, k, k) = " "

\* C12: isEmbroideryValid is false exactly when the checkbox is checked and
\* the text is blank after trimming or some fieldset has no checked radio;
\* it is true in every other case, an unchecked checkbox with nothing filled
\* in included.
C12_ValidityGating ==
  isEmbroideryValid(pdp) =
    ~(pdp.checked /\ (Blank(pdp.name) \/ \E g \in GroupNames : pdp.sel[g] = NoneChecked))

\* checked, every fieldset chosen, a name of one blank: not valid, button disabled
C12_Witness ==
  /\ pdp.mounted /\ pdp.checked /\ pdp.name = " "
  /\ \A g \in GroupNames : pdp.sel[g] # NoneChecked
  /\ pdp.disabled

\* C13: once an instance is mounted, after every handled mutation (name
\* input, toggle, option change, the rehydration at the drawer's mount) its
\* add button is disabled exactly when isEmbroideryValid is false for the
\* fields as they are now: no state lies between the mutation and the
\* re-evaluation.
C13_ButtonFollowsValidity ==
  /\ pdp.mounted => (pdp.disabled <=> ~isEmbroideryValid(pdp))
  /\ drawer.mounted => (drawer.disabled <=> ~isEmbroideryValid(drawer))

\* the drawer was rehydrated with an enabled configuration whose name is a
\* blank: both buttons are disabled
C13_Witness ==
  /\ drawer.mounted /\ drawer.checked /\ drawer.name = " " /\ drawer.disabled
  /\ pdp.mounted /\ pdp.checked /\ pdp.name = " " /\ pdp.disabled

\* data-option-price of the checked radio of a fieldset, 0 without one
PriceDelta(v) == IF v = NoneChecked THEN 0 ELSE OptionPrice(v)

\* C14: calculateTotalPrice is 0 whenever the name is empty, whatever the
\* selections and the checkbox; otherwise it is the base price plus the price
\* of the checked radio of every fieldset that has one (base 500, Script
\* +200, Gold +150, name "Ava": 850).
C14_TotalPrice ==
  /\ calculateTotalPrice(pdp) =
       IF pdp.name = "" THEN 0
       ELSE BasePrice + PriceDelta(pdp.sel["font"]) + PriceDelta(pdp.sel["color"])
  /\ pdp.name = "Ava" /\ pdp.sel["font"] = "Script" /\ pdp.sel["color"] = "Gold"
       => calculateTotalPrice(pdp) = 850

\* the scenario, shown on the page, with the checkbox unchecked
C14_Witness ==
  /\ pdp.mounted /\ ~pdp.checked
  /\ pdp.name = "Ava" /\ pdp.sel["font"] = "Script" /\ pdp.sel["color"] = "Gold"
  /\ pdp.price = 850

\* text t occurs in s at position k or later
RECURSIVE Occurs(_, _, _)
Occurs(t, s, k) ==
  /\ k + Len(t) - 1 <= Len(s)
  /\ (SubSeq(s, k, k + Len(t) - 1) = t \/ Occurs(t, s, k + 1))

\* the variant ids of the catalog's options whose price is not positive
UnpricedIds ==
  UNION {{OptionVariantId(GroupValues(g)[i]) :
            i \in {j \in 1..Len(GroupValues(g)) : OptionPrice(GroupValues(g)[j]) <= 0}} :
         g \in GroupNames}

\* C15: no item of a stored plan is the variant of an option whose price is
\* <= 0, also when that option is selected, the checkbox checked and the
\* configuration valid; the option's value still stands in the plan's
\* "Embroidery Name" property.
C15_UnpricedNeverALine ==
  addons # Absent =>
    /\ \A k \in 1..Len(addons[1].items) : addons[1].items[k].id \notin UnpricedIds
    /\ \A g \in GroupNames :
         pdp.sel[g] # NoneChecked /\ OptionPrice(pdp.sel[g]) <= 0 =>
           Occurs(pdp.sel[g], addons[1].properties[1][2], 1)

\* enabled and valid with the free colour Black, which has a variant id
C15_Witness ==
  /\ addons # Absent
  /\ pdp.checked /\ isEmbroideryValid(pdp)
  /\ pdp.sel["color"] = "Black" /\ pdp.sel["font"] = "Script"
  /\ Len(addons[1].items) > 0

\* the ids of a plan's items, in order
PlanIds == [k \in 1..Len(addons[1].items) |-> addons[1].items[k].id]

\* the variant ids of the selected options with a price > 0, in the order of
\* the fieldsets
PricedOptionIds ==
  LET priced == SelectSeq(Groups, LAMBDA g : pdp.sel[g] # NoneChecked
                                              /\ OptionPrice(pdp.sel[g]) > 0
                                              /\ OptionVariantId(pdp.sel[g]) # "")
  IN [k \in 1..Len(priced) |-> OptionVariantId(pdp.sel[priced[k]])]

\* C16 as stated: the items of the plan stored for an enabled, valid
\* configuration are exactly the entries of the selected options whose price
\* is > 0, in the order of the groups, and nothing else.
C16_OnlyPricedOptions ==
  pdp.mounted /\ pdp.checked /\ isEmbroideryValid(pdp) /\ addons # Absent =>
    PlanIds = PricedOptionIds

\* C16 amended: the items of the plan stored for an enabled, valid
\* configuration are, first, the entry of the base embroidery product when
\* the name input carries a variant id (and a price > 0), then the entries
\* of the selected options that carry a variant id and a price > 0, in the
\* order of the groups, and nothing else.
C16_BaseThenPricedOptions ==
  pdp.mounted /\ pdp.checked /\ isEmbroideryValid(pdp) /\ addons # Absent =>
    PlanIds = (IF pdp.nameVariantId # "" THEN <<pdp.nameVariantId>> ELSE <<>>)
              \o PricedOptionIds

\* the scenario: "Ava", Script, Gold on a page whose name input has a variant
C16_Witness ==
  /\ pdp.mounted /\ pdp.checked /\ pdp.name = "Ava"
  /\ pdp.sel["font"] = "Script" /\ pdp.sel["color"] = "Gold"
  /\ addons # Absent
  /\ PlanIds = <<NameVariantId, "var-script", "var-gold">>

\* the responses of the product form's requests that were failures
FormFailures == {k \in 1..Len(form.resps) : form.resps[k] \in {"errbody", "rejected"}}

\* a drawer submission one of whose requests failed: the answer carried an
\* error body, or the request was rejected at transport level
Failing(s) ==
  s.change \in {"errbody", "rejected"} \/ s.add \in {"errbody", "rejected"}

\* C17: in both contexts every submission that the cart service answers with
\* a failure, or that fails on the network, ends with one cart-error
\* published and no cart-update: the product form has published one
\* cart-error per failed request and no cart-update for them, and every
\* ended drawer submission with a failed request has published one
\* cart-error and no cart-update.
C17_FailurePublishesError ==
  /\ ~form.inflight =>
       /\ form.errors = Cardinality(FormFailures)
       /\ form.updated <= Len(form.resps) - Cardinality(FormFailures)
  /\ \A i \in 1..Len(subs) :
       Failing(subs[i]) /\ subs[i].phase = "done" =>
         subs[i].errors = 1 /\ subs[i].updated = 0

C19_RoundTrip ==
  [][~drawer.mounted /\ drawer'.mounted /\ storage # Absent /\ storage[1].json =>
       /\ drawer'.name = pdp.name
       /\ drawer'.checked = pdp.checked
       /\ drawer'.sel = pdp.sel]_vars

\* C20: the stored snapshot is only ever one written by an instance in
\* position pdp, and once the drawer's instance is mounted (it has read the
\* snapshot, once) no step that changes that instance changes the snapshot.
C20_OnlyPdpWrites ==
  /\ [](storage # Absent /\ storage[1].json => storage[1].state.position = "pdp")
  /\ [][drawer.mounted /\ drawer' # drawer => storage' = storage]_vars

\* C21: on the product page, with a product id and a working sessionStorage,
\* every handled mutation leaves a stored snapshot, and the stored snapshot
\* always holds the present name, checkbox state and checked radios.
C21_SnapshotCurrent ==
  /\ [](storage # Absent =>
          /\ storage[1].json
          /\ storage[1].state.name = pdp.name
          /\ storage[1].state.enabled = pdp.checked
          /\ storage[1].state.options = SelectedFrom(pdp, 1))
  /\ [][PdpMutated => storage' # Absent]_vars

\* the read of loadSavedState fails: getItem throws, or the item is not JSON
ReadFails == env.storageThrows \/ (storage # Absent /\ ~storage[1].json)

\* C22: a sessionStorage that throws never stops a handler: the item stays as
\* it was, the button still follows validity, and a toggle still dispatches
\* its event with the resulting checkbox state; and when the read at the
\* drawer's mount fails (the storage throws, or the item is not JSON) the
\* mount completes with the fields the template rendered and the button set
\* from them.
C22_StorageFailuresSwallowed ==
  /\ [](env.storageThrows =>
          /\ pdp.mounted => (pdp.disabled <=> ~isEmbroideryValid(pdp))
          /\ drawer.mounted => (drawer.disabled <=> ~isEmbroideryValid(drawer)))
  /\ [][env.storageThrows =>
          /\ storage' = storage
          /\ pdp'.checked # pdp.checked =>
                toggled' = <<[enabled |-> pdp'.checked, position |-> "pdp",
                              buttonDisabled |-> ~isEmbroideryValid(pdp')]>>
          /\ drawer.mounted /\ drawer'.checked # drawer.checked =>
                toggled' = <<[enabled |-> drawer'.checked, position |-> "drawer",
                              buttonDisabled |-> ~isEmbroideryValid(drawer')]>>]_vars
  /\ [][ReadFails /\ ~drawer.mounted /\ drawer' # drawer =>
          /\ drawer'.mounted
          /\ drawer'.name = drawer.name
          /\ drawer'.checked = drawer.checked
          /\ drawer'.sel = drawer.sel
          /\ drawer'.disabled <=> ~isEmbroideryValid(drawer')]_vars

\* the storage throws and holds an item that is not JSON; the drawer has
\* mounted with its template's fields, and a toggle on the product page went
\* through to the listener with the button disabled
C22_Witness ==
  /\ env.storageThrows /\ storage = Damaged
  /\ drawer.mounted /\ drawer.name = "" /\ ~drawer.checked
  /\ pdp.mounted /\ pdp.checked /\ pdp.disabled
  /\ toggled # <<>> /\ toggled[1].position = "pdp" /\ toggled[1].buttonDisabled

\* the instance that dispatched event e
Source(e) == IF e.position = "pdp" THEN pdp ELSE drawer

C23_Witness ==
  /\ toggled = <<[enabled |-> TRUE, position |-> "drawer", buttonDisabled |-> TRUE]>>
  /\ drawer.mounted /\ drawer.checked /\ drawer.name = ""

Known(g, v) == g \in GroupNames /\ \E k \in 1..Len(GroupValues(g)) : GroupValues(g)[k] = v

\* the snapshot's options name group g with one of its values
Names(options, g) == \E i \in 1..Len(options) : options[i][1] = g /\ Known(g, options[i][2])

\* C24: the drawer's radios belong to catalog groups only and the checked one
\* of a group, if any, is a value of that group; and mounting over a parsable
\* snapshot leaves the selection of every group unchanged that the snapshot
\* does not name with one of that group's values (an unknown group or an
\* unknown value changes nothing).
C24_CatalogSelections ==
  /\ [](/\ DOMAIN drawer.sel = GroupNames
        /\ \A g \in GroupNames : drawer.sel[g] = NoneChecked \/ Known(g, drawer.sel[g])
        /\ \A i \in 1..Len(SelectedFrom(drawer, 1)) :
              Known(SelectedFrom(drawer, 1)[i][1], SelectedFrom(drawer, 1)[i][2]))
  /\ [][~drawer.mounted /\ drawer'.mounted /\ storage # Absent /\ storage[1].json
          => \A g \in GroupNames :
               ~Names(storage[1].state.options, g) => drawer'.sel[g] = drawer.sel[g]]_vars

\* the drawer has mounted over a snapshot naming the group size and the value
\* Pink of color: text and checkbox were taken from it, the pre-checked
\* radios are as the template had them
C24_Witness ==
  /\ drawer.mounted
  /\ storage # Absent
  /\ storage[1].state.options = <<<<"size", "Large">>, <<"color", "Pink">>>>
  /\ drawer.name = "Ava" /\ drawer.checked
  /\ drawer.sel = [g \in GroupNames |-> GroupValues(g)[1]]
  /\ subs = <<>>

\* every group of instance c has its first value checked
FirstValues(c) == \A g \in GroupNames : c.sel[g] = GroupValues(g)[1]

\* C25: the step that mounts an instance ends with the first value of every
\* catalog group selected in it.
C25_FirstValuesAtMount ==
  [][/\ ~pdp.mounted /\ pdp'.mounted => FirstValues(pdp')
     /\ ~drawer.mounted /\ drawer'.mounted => FirstValues(drawer')]_vars

\* C26: whenever a submission has put its control into the loading state (the
\* drawer's add button, the form's submit button), the control leaves the
\* loading state at some later point, given that every request is answered.
C26_LoadingReset ==
  /\ drawer.loading ~> ~drawer.loading
  /\ form.ariaDisabled ~> ~form.ariaDisabled

\* C27: every click on the add button has issued at most one change and at
\* most one add request, whatever the responses were, and the product form
\* has issued exactly one request per submit it handled.
C27_NoRetry ==
  /\ \A i \in 1..Len(subs) : subs[i].changeSent <= 1 /\ subs[i].addSent <= 1
  /\ form.sent = form.submits
  /\ Len(form.resps) <= form.sent

\* a submission whose change request was rejected while the add request had
\* been issued: it has ended, one request of each kind
C27_Witness ==
  \E i \in 1..Len(subs) :
    /\ subs[i].result = "failed"
    /\ subs[i].change = "rejected"
    /\ subs[i].changeSent = 1 /\ subs[i].addSent = 1

\* the text in double quotes, then ", " and the group's value for the two
\* groups in declaration order
Summary(text, font, color) == "\"" \o text \o "\"" \o ", " \o font \o ", " \o color

\* C28: a stored plan has the one property "Embroidery Name", whose value is
\* the product page's current text in double quotes followed by ", " and the
\* selected value of font and then of color.
C28_EmbroideryName ==
  addons # Absent =>
    addons[1].properties =
      <<<<"Embroidery Name", Summary(pdp.name, pdp.sel[Groups[1]], pdp.sel[Groups[2]])>>>>

\* the plan of text Ava with Script and Gold
C28_Witness ==
  /\ addons # Absent
  /\ pdp.name = "Ava" /\ pdp.sel["font"] = "Script" /\ pdp.sel["color"] = "Gold"
  /\ addons[1].properties = <<<<"Embroidery Name", "\"Ava\", Script, Gold">>>>

\* a step of the product page's instance whose handler ran updatePreview: the
\* mount, a name input, an option change
PdpRecomputed ==
  (~pdp.mounted /\ pdp'.mounted) \/ pdp'.name # pdp.name \/ pdp'.sel # pdp.sel

\* C29: running the pipeline once more in the state a recomputing handler
\* left, with text, checkbox, selections and form quantity as they are,
\* changes neither the price and the button nor the stored plan.
C29_RecomputeIdempotent ==
  [][PdpRecomputed =>
       /\ updatePreview(pdp') = pdp'
       /\ updatePreview(pdp').price = pdp'.price
       /\ buildEmbroideryAddons(updatePreview(pdp')) = addons']_vars

\* a recomputation has left the price of Ava with Script and Gold and their plan
C29_Witness ==
  /\ pdp.mounted /\ pdp.checked /\ pdp.name = "Ava"
  /\ pdp.price = BasePrice + OptionPrice("Script") + OptionPrice("Gold")
  /\ addons # Absent /\ Len(addons[1].items) >= 2

\* a step of the drawer's instance whose handler rebuilt the plan: the mount,
\* a name input, an option change
DrawerRecomputed ==
  (~drawer.mounted /\ drawer'.mounted) \/ drawer'.name # drawer.name \/ drawer'.sel # drawer.sel

\* the variant ids instance c asks for: the name input's, then those of its
\* selected options with a variant and a price > 0, in the order of the groups
IdsOf(c) ==
  LET priced == SelectSeq(Groups, LAMBDA g : c.sel[g] # NoneChecked
                                              /\ OptionPrice(c.sel[g]) > 0
                                              /\ OptionVariantId(c.sel[g]) # "")
  IN (IF c.nameVariantId # "" THEN <<c.nameVariantId>> ELSE <<>>)
     \o [k \in 1..Len(priced) |-> OptionVariantId(c.sel[priced[k]])]

\* handoff h is what instance c alone asks for: absent when c is not enabled
\* or not valid, and otherwise one plan with c's items and c's summary only
OwnPlan(h, c) ==
  IF ~c.checked \/ Len(Trim(c.name)) = 0 \/ \E g \in GroupNames : c.sel[g] = NoneChecked
    THEN h = Absent
    ELSE /\ Len(h) = 1
         /\ [k \in 1..Len(h[1].items) |-> h[1].items[k].id] = IdsOf(c)
         /\ h[1].properties =
              <<<<"Embroidery Name", Summary(c.name, c.sel[Groups[1]], c.sel[Groups[2]])>>>>

\* C30: a step in which an instance recomputed leaves the handoff absent or
\* holding exactly that instance's own plan: its items and its summary, and
\* nothing of the plan that was stored before, whichever instance stored it.
C30_Overwritten ==
  [][/\ PdpRecomputed => OwnPlan(addons', pdp')
     /\ DrawerRecomputed => OwnPlan(addons', drawer')]_vars

\* both instances are enabled and valid with different fonts, and the handoff
\* holds the drawer's plan, which is not the product page's
C30_Witness ==
  /\ pdp.mounted /\ drawer.mounted
  /\ pdp.checked /\ isEmbroideryValid(pdp) /\ drawer.checked /\ isEmbroideryValid(drawer)
  /\ pdp.sel["font"] = "Script" /\ drawer.sel["font"] = "Classic"
  /\ addons # Absent
  /\ PlanIds = IdsOf(drawer)
  /\ PlanIds # IdsOf(pdp)

\* a step of the drawer's instance: its mount, one of its handlers
DrawerStepped == drawer' # drawer \/ subs' # subs

\* C31: while the handoff holds the plan of the product page's current
\* configuration, which a submit of the product form would send, no step of
\* the drawer's instance removes or replaces it.
C31_DrawerLeavesPlan ==
  [][pdp.mounted /\ addons # Absent /\ OwnPlan(addons, pdp) /\ DrawerStepped
       => addons' = addons]_vars

\* C32: the checkbox of each instance is checked exactly when its accordion
\* is open.
C32_EnabledIsOpen ==
  /\ pdp.checked = accordion.pdp.isOpen
  /\ drawer.checked = accordion.drawer.isOpen

\* C38: a gesture that flips the checkbox of a mounted instance, and whose
\* toggle call the throttle lets through, makes the page's listener receive
\* exactly one embroidery:toggle, with enabled equal to the checkbox's new
\* state.
C38_OneNotification ==
  [][/\ pdp.mounted /\ pdp'.checked # pdp.checked /\ ~Dropped(accordion.pdp)
          => Len(toggled') = 1 /\ toggled'[1].enabled = pdp'.checked
     /\ drawer.mounted /\ drawer'.checked # drawer.checked /\ ~Dropped(accordion.drawer)
          => Len(toggled') = 1 /\ toggled'[1].enabled = drawer'.checked]_vars

\* at the click the drawer's configuration is enabled and valid and the key of
\* its cart line is known
MaySubmit ==
  /\ drawer.checked
  /\ Len(Trim(drawer.name)) > 0
  /\ \A g \in GroupNames : drawer.sel[g] # NoneChecked
  /\ drawer.lineItemKey # ""

\* C33: a click on the drawer's add button issues requests only when the
\* configuration is enabled and valid and the line item key is known; any
\* other click issues neither a change nor an add request, and a submission
\* that issued none never publishes cart-update or cart-error.
C33_SubmitGuard ==
  /\ [][Len(subs') > Len(subs) =>
          /\ subs'[Len(subs')].changeSent + subs'[Len(subs')].addSent > 0 => MaySubmit
          /\ ~MaySubmit => /\ subs'[Len(subs')].changeSent = 0
                           /\ subs'[Len(subs')].addSent = 0
                           /\ subs'[Len(subs')].phase = "done"]_vars
  /\ [](\A i \in 1..Len(subs) :
           subs[i].changeSent + subs[i].addSent = 0 =>
             subs[i].updated = 0 /\ subs[i].errors = 0)

\* two clicks on an enabled, valid configuration whose element carries no
\* line item key: both ended without a request
C33_Witness ==
  /\ Len(subs) = 2
  /\ drawer.checked /\ drawer.name = "Ava" /\ drawer.lineItemKey = ""
  /\ subs[1].result = "skipped" /\ subs[1].changeSent = 0
  /\ subs[2].result = "skipped"

\* C34: a submission whose two requests succeeded, and whose handler has
\* ended, published no cart-error, and the step that ended it left the plan
\* absent, however the subscribers of cart-update behaved.
C34_SubscribersDoNotMatter ==
  [][\A i \in 1..Len(subs) :
       subs[i].phase = "publishing" /\ subs'[i].phase = "done" =>
         /\ subs'[i].errors = 0
         /\ addons' = Absent]_vars

\* C35: no submission has published both cart-update and cart-error, none has
\* published either more than once, and one that has published cart-update
\* had a response without error indication to each request it issued.
C35_UpdateXorError ==
  \A i \in 1..Len(subs) :
    /\ subs[i].updated <= 1 /\ subs[i].errors <= 1
    /\ ~(subs[i].updated > 0 /\ subs[i].errors > 0)
    /\ subs[i].updated > 0 => subs[i].change = "ok" /\ subs[i].add \in {"ok", "none"}

\* C36: a click that issues a request issues the change request, and the add
\* request exactly when the drawer's configuration asks for at least one
\* item; a submission without add request publishes cart-update once its
\* change request is answered without error indication, and fails when that
\* answer carries one or the request is rejected.
C36_ChangeAlwaysAddIfItems ==
  /\ [][Len(subs') > Len(subs)
          /\ subs'[Len(subs')].changeSent + subs'[Len(subs')].addSent > 0 =>
            /\ subs'[Len(subs')].changeSent = 1
            /\ subs'[Len(subs')].addSent = 1 <=> Len(IdsOf(drawer)) > 0]_vars
  /\ [](\A i \in 1..Len(subs) :
           subs[i].changeSent = 1 /\ subs[i].addSent = 0 =>
             /\ subs[i].add = "none"
             /\ subs[i].change = "ok" => subs[i].updated = 1
             /\ subs[i].change \in {"errbody", "rejected"} =>
                  subs[i].result = "failed" /\ subs[i].updated = 0)

\* a configuration none of whose parts has a priced variant was submitted:
\* the change request alone, answered ok, cart-update published
C36_Witness ==
  \E i \in 1..Len(subs) :
    /\ subs[i].changeSent = 1 /\ subs[i].addSent = 0
    /\ subs[i].change = "ok" /\ subs[i].updated = 1 /\ subs[i].payload = "change"

\* C37: the step that mounts the drawer's instance over a readable snapshot
\* takes text and checkbox from the snapshot and leaves the price display,
\* the add button and the plan as they follow from the fields after the
\* rehydration.
C37_DerivedFromRehydrated ==
  [][~drawer.mounted /\ drawer'.mounted /\ storage # Absent /\ storage[1].json =>
       /\ drawer'.checked = storage[1].state.enabled
       /\ storage[1].state.name # "" => drawer'.name = storage[1].state.name
       /\ drawer'.price =
            IF drawer'.name = "" THEN BasePrice
            ELSE BasePrice + PriceDelta(drawer'.sel["font"]) + PriceDelta(drawer'.sel["color"])
       /\ drawer'.disabled <=>
            /\ drawer'.checked
            /\ (Len(Trim(drawer'.name)) = 0 \/ \E g \in GroupNames : drawer'.sel[g] = NoneChecked)
       /\ OwnPlan(addons', drawer')]_vars

\* the drawer has mounted over the snapshot of Ava, Script, Gold: price, button
\* and plan are those of the snapshot, not of the empty template
C37_Witness ==
  /\ drawer.mounted /\ subs = <<>>
  /\ storage # Absent /\ storage[1].state.options = <<<<"font", "Script">>, <<"color", "Gold">>>>
  /\ drawer.name = "Ava" /\ drawer.checked
  /\ drawer.sel = [font |-> "Script", color |-> "Gold"]
  /\ drawer.price = 850
  /\ ~drawer.disabled
  /\ addons # Absent /\ addons[1].properties = <<<<"Embroidery Name", "\"Ava\", Script, Gold">>>>

====
